---- MODULE Spec2Model ----
(***************************************************************************)
(* Frame lifecycle and resize state machine of the wgpu cube viewer        *)
(* (src/src/main.rs, src/src/transforms.rs) and of the plain triangle      *)
(* event loop (src/src/lib.rs).                                            *)
(*                                                                         *)
(* f32 values are modelled in fixed point: the integer x stands for the    *)
(* real x / FP, and every product and quotient is truncated to that grid,  *)
(* as an f32 operation rounds to its own.  A Matrix4<f32> is a tuple of    *)
(* four columns of four entries (cgmath is column-major).                  *)
(***************************************************************************)
EXTENDS Integers, Sequences, FiniteSets

\* Largest window width / height, in pixels, that the window system reports.
MaxDim == 8

\* Fixed-point scale of the f32 model.
FP == 1000

(***************************************************************************)
(* f32 arithmetic                                                          *)
(***************************************************************************)
Trunc(n, d) == IF n >= 0 THEN n \div d ELSE -((-n) \div d)

\* the f32 literal num/den
F(num, den) == Trunc(num * FP, den)

FMul(a, b) == Trunc(a * b, FP)

FDiv(a, b) == IF b > 0 THEN Trunc(a * FP, b) ELSE -Trunc(a * FP, -b)

RECURSIVE ISqrtIter(_, _)
ISqrtIter(n, x) ==
    LET y == (x + n \div x) \div 2
    IN  IF y >= x THEN x ELSE ISqrtIter(n, y)

FSqrt(a) == IF a <= 0 THEN 0 ELSE ISqrtIter(a * FP, a * FP)

\* `n as f32` for a u32 n
U32AsF32(n) == n * FP

\* std::f32::consts::PI
PI == F(31416, 10000)

\* sine and cosine by their series, enough terms for |x| <= PI / 2
Sin(x) ==
    LET x2 == FMul(x, x)
        x3 == FMul(x2, x)
        x5 == FMul(x3, x2)
        x7 == FMul(x5, x2)
    IN  x - Trunc(x3, 6) + Trunc(x5, 120) - Trunc(x7, 5040)

Cos(x) ==
    LET x2 == FMul(x, x)
        x4 == FMul(x2, x2)
        x6 == FMul(x4, x2)
    IN  FP - Trunc(x2, 2) + Trunc(x4, 24) - Trunc(x6, 720)

Cot(x) == FDiv(Cos(x), Sin(x))

(***************************************************************************)
(* cgmath vectors and matrices                                             *)
(***************************************************************************)
Dot(a, b) == FMul(a[1], b[1]) + FMul(a[2], b[2]) + FMul(a[3], b[3])

Cross(a, b) ==
    << FMul(a[2], b[3]) - FMul(a[3], b[2]),
       FMul(a[3], b[1]) - FMul(a[1], b[3]),
       FMul(a[1], b[2]) - FMul(a[2], b[1]) >>

Normalize(a) ==
    LET m == FSqrt(Dot(a, a))
    IN  << FDiv(a[1], m), FDiv(a[2], m), FDiv(a[3], m) >>

\* Matrix4::new takes the sixteen entries column by column
Matrix4New(c0r0, c0r1, c0r2, c0r3, c1r0, c1r1, c1r2, c1r3, c2r0, c2r1, c2r2, c2r3, c3r0, c3r1, c3r2, c3r3) ==
    << <<c0r0, c0r1, c0r2, c0r3>>, <<c1r0, c1r1, c1r2, c1r3>>,
       <<c2r0, c2r1, c2r2, c2r3>>, <<c3r0, c3r1, c3r2, c3r3>> >>

\* Matrix4 * Vector4
MatVec(a, v) ==
    << FMul(a[1][1], v[1]) + FMul(a[2][1], v[2])
         + FMul(a[3][1], v[3]) + FMul(a[4][1], v[4]),
       FMul(a[1][2], v[1]) + FMul(a[2][2], v[2])
         + FMul(a[3][2], v[3]) + FMul(a[4][2], v[4]),
       FMul(a[1][3], v[1]) + FMul(a[2][3], v[2])
         + FMul(a[3][3], v[3]) + FMul(a[4][3], v[4]),
       FMul(a[1][4], v[1]) + FMul(a[2][4], v[2])
         + FMul(a[3][4], v[3]) + FMul(a[4][4], v[4]) >>

\* Matrix4 * Matrix4: column j of a * b is a * (column j of b)
MatMul(a, b) ==
    << MatVec(a, b[1]), MatVec(a, b[2]), MatVec(a, b[3]), MatVec(a, b[4]) >>

\* <Matrix4<f32> as AsRef<[f32; 16]>>::as_ref: the columns one after another
AsRef(m) == m[1] \o m[2] \o m[3] \o m[4]

Matrix4FromTranslation(v) ==
    Matrix4New(FP, 0, 0, 0,  0, FP, 0, 0,  0, 0, FP, 0,  v[1], v[2], v[3], FP)

Matrix4FromAngleX(t) ==
    Matrix4New(FP, 0, 0, 0,  0, Cos(t), Sin(t), 0,  0, -Sin(t), Cos(t), 0,
               0, 0, 0, FP)

Matrix4FromAngleY(t) ==
    Matrix4New(Cos(t), 0, -Sin(t), 0,  0, FP, 0, 0,  Sin(t), 0, Cos(t), 0,
               0, 0, 0, FP)

Matrix4FromAngleZ(t) ==
    Matrix4New(Cos(t), Sin(t), 0, 0,  -Sin(t), Cos(t), 0, 0,  0, 0, FP, 0,
               0, 0, 0, FP)

Matrix4FromNonuniformScale(x, y, z) ==
    Matrix4New(x, 0, 0, 0,  0, y, 0, 0,  0, 0, z, 0,  0, 0, 0, FP)

\* Matrix4::look_at_rh(eye, center, up)
LookAtRh(eye, center, up) ==
    LET dir == << center[1] - eye[1], center[2] - eye[2], center[3] - eye[3] >>
        f   == Normalize(dir)
        s   == Normalize(Cross(f, up))
        u   == Cross(s, f)
    IN  Matrix4New(s[1], u[1], -f[1], 0,
                   s[2], u[2], -f[2], 0,
                   s[3], u[3], -f[3], 0,
                   -Dot(eye, s), -Dot(eye, u), Dot(eye, f), FP)

\* cgmath::perspective(fovy, aspect, near, far)
Perspective(fovy, aspect, near, far) ==
    LET f == Cot(Trunc(fovy, 2))
    IN  Matrix4New(FDiv(f, aspect), 0, 0, 0,
                   0, f, 0, 0,
                   0, 0, FDiv(far + near, near - far), -FP,
                   0, 0, FDiv(FMul(FMul(2 * FP, far), near), near - far), 0)

\* cgmath::ortho(left, right, bottom, top, near, far)
Ortho(left, right, bottom, top, near, far) ==
    Matrix4New(FDiv(2 * FP, right - left), 0, 0, 0,
               0, FDiv(2 * FP, top - bottom), 0, 0,
               0, 0, -FDiv(2 * FP, far - near), 0,
               -FDiv(right + left, right - left),
               -FDiv(top + bottom, top - bottom),
               -FDiv(far + near, far - near), FP)

(***************************************************************************)
(* transforms.rs                                                           *)
(***************************************************************************)
OPENGL_TO_WGPU_MATRIX ==
    Matrix4New(FP, 0, 0, 0,
               0, FP, 0, 0,
               0, 0, F(1, 2), 0,
               0, 0, F(1, 2), FP)

create_view(camera_position, look_direction, up_direction) ==
    LookAtRh(camera_position, look_direction, up_direction)

create_projection(aspect, is_perspective) ==
    IF is_perspective
    THEN MatMul(OPENGL_TO_WGPU_MATRIX,
                Perspective(FDiv(FMul(2 * FP, PI), 5 * FP), aspect,
                            F(1, 10), 100 * FP))
    ELSE MatMul(OPENGL_TO_WGPU_MATRIX,
                Ortho(-4 * FP, 4 * FP, -3 * FP, 3 * FP, -FP, 6 * FP))

\* create_view_projection with the product taken as view * projection
create_view_projection_view_first(camera_position, look_direction, up_direction, aspect, is_perspective) ==
    LET view_mat == LookAtRh(camera_position, look_direction, up_direction)
        project_mat == create_projection(aspect, is_perspective)
    IN  << view_mat, project_mat, MatMul(view_mat, project_mat) >>

create_view_projection(camera_position, look_direction, up_direction, aspect, is_perspective) ==
    LET view_mat == LookAtRh(camera_position, look_direction, up_direction)
        project_mat ==
            IF is_perspective
            THEN MatMul(OPENGL_TO_WGPU_MATRIX,
                        Perspective(FDiv(FMul(2 * FP, PI), 5 * FP), aspect,
                                    F(1, 10), 100 * FP))
            ELSE MatMul(OPENGL_TO_WGPU_MATRIX,
                        Ortho(-4 * FP, 4 * FP, -3 * FP, 3 * FP, -FP, 6 * FP))
        view_project_mat == MatMul(project_mat, view_mat)
    IN  << view_mat, project_mat, view_project_mat >>

create_transforms(translation, rotation, scaling) ==
    LET trans_mat    == Matrix4FromTranslation(translation)
        rotate_mat_x == Matrix4FromAngleX(rotation[1])
        rotate_mat_y == Matrix4FromAngleY(rotation[2])
        rotate_mat_z == Matrix4FromAngleZ(rotation[3])
        scale_mat    == Matrix4FromNonuniformScale(scaling[1], scaling[2],
                                                   scaling[3])
    IN  MatMul(MatMul(MatMul(MatMul(trans_mat, rotate_mat_z), rotate_mat_y),
                      rotate_mat_x), scale_mat)

(***************************************************************************)
(* State of one run of a program of the repository                         *)
(***************************************************************************)
VARIABLES
    program,            \* "main" (main.rs main) or "run" (lib.rs run)
    size,               \* init.size
    config,             \* init.config / config: the SurfaceConfiguration
    surface,            \* the configuration last applied to the surface
    model_matrix,       \* State.model_matrix
    view_matrix,        \* State.view_matrix
    projection_matrix,  \* State.projection_matrix
    uniform_buffer,     \* the sixteen floats held by State.uniform_buffer
    exiting,            \* event_loop_window.exit() was called
    panicked,           \* a panic unwound out of the event handler
    event,              \* the notification handled last
    repeated,           \* it is the same notification as the one before it
    calls               \* device, queue, surface and log calls it made

vars == << program, size, config, surface, model_matrix, view_matrix,
           projection_matrix, uniform_buffer, exiting, panicked, event,
           repeated, calls >>

\* const IS_PERSPECTIVE
IS_PERSPECTIVE == TRUE

\* what get_current_texture can return: Ok or a wgpu::SurfaceError
SurfaceErrors == {"Timeout", "Outdated", "Lost", "OutOfMemory"}
Acquired == {"Ok"} \cup SurfaceErrors

\* PhysicalSize<u32> values the window system can deliver
PhysicalSize(w, h) == [width |-> w, height |-> h]
Sizes == {PhysicalSize(w, h) : w \in 0..MaxDim, h \in 0..MaxDim}
\* inner sizes of a window a surface can be created and configured for
WindowSizes == {s \in Sizes : s.width > 0 /\ s.height > 0}

Call(op, detail, x, y) == [op |-> op, detail |-> detail, x |-> x, y |-> y]

Configure(cfg) == Call("surface.configure", cfg.present_mode, cfg.width, cfg.height)

Event(kind, sz, acquired) ==
    [kind |-> kind, width |-> sz.width, height |-> sz.height,
     acquired |-> acquired]

NoSize == PhysicalSize(0, 0)

\* the running program as one value
Self ==
    [size |-> size, config |-> config, surface |-> surface,
     model_matrix |-> model_matrix, view_matrix |-> view_matrix,
     projection_matrix |-> projection_matrix,
     uniform_buffer |-> uniform_buffer,
     exiting |-> exiting, panicked |-> panicked, calls |-> << >>]

(***************************************************************************)
(* transforms.rs: InitWgpu::init_wgpu                                      *)
(***************************************************************************)
init_wgpu(window_size) ==
    LET cfg == [width |-> window_size.width, height |-> window_size.height,
                present_mode |-> "Fifo", desired_maximum_frame_latency |-> 2]
    IN  [size |-> window_size, config |-> cfg, surface |-> cfg,
         calls |-> << Configure(cfg) >>]

(***************************************************************************)
(* main.rs: State                                                          *)
(***************************************************************************)
\* the camera State::new sets up
CameraPosition == << 3 * FP, F(3, 2), 3 * FP >>
LookDirection  == << 0, 0, 0 >>
\* cgmath::Vector3::unit_y()
UpDirection    == << 0, FP, 0 >>

State_new(window_size) ==
    LET init == init_wgpu(window_size)
        model == create_transforms(<<0, 0, 0>>, <<0, 0, 0>>, <<FP, FP, FP>>)
        vp == create_view_projection(CameraPosition, LookDirection,
                  UpDirection,
                  FDiv(U32AsF32(init.config.width),
                       U32AsF32(init.config.height)),
                  IS_PERSPECTIVE)
        mvp_mat == MatMul(vp[3], model)
    IN  [size |-> init.size, config |-> init.config, surface |-> init.surface,
         model_matrix |-> model, view_matrix |-> vp[1],
         projection_matrix |-> vp[2],
         uniform_buffer |-> AsRef(mvp_mat),
         exiting |-> FALSE, panicked |-> FALSE,
         calls |-> init.calls \o
             << Call("create_buffer_init", "Uniform Buffer", 0, 16),
                Call("create_render_pipeline", "Render Pipeline", 0, 0),
                Call("create_buffer_init", "Vertex Buffer", 0, 36) >>]

\* the effect of resize when both dimensions are positive, given the aspect
\* ratio it builds the projection from and whether it uploads the matrix
ResizeWith(self, new_size, aspect, upload) ==
    LET cfg  == [self.config EXCEPT !.width = new_size.width,
                                    !.height = new_size.height]
        proj == create_projection(aspect, IS_PERSPECTIVE)
        mvp_mat == MatMul(MatMul(proj, self.view_matrix), self.model_matrix)
    IN  [self EXCEPT
            !.size = new_size,
            !.config = cfg,
            !.surface = cfg,
            !.projection_matrix = proj,
            !.uniform_buffer = IF upload THEN AsRef(mvp_mat) ELSE @,
            !.calls = self.calls \o
                << Call("instance.poll_all", "true", 0, 0), Configure(cfg) >>
                \o (IF upload
                    THEN << Call("queue.write_buffer", "uniform_buffer", 0, 16) >>
                    ELSE << >>)]

\* resize that recomputes the projection and leaves the uniform buffer alone
resize_skips_upload(self, new_size) ==
    IF new_size.width > 0 /\ new_size.height > 0
    THEN ResizeWith(self, new_size,
                    FDiv(U32AsF32(new_size.width), U32AsF32(new_size.height)),
                    FALSE)
    ELSE self

\* resize that reapplies the configuration outside the guard
resize_configures_unguarded(self, new_size) ==
    IF new_size.width > 0 /\ new_size.height > 0
    THEN ResizeWith(self, new_size,
                    FDiv(U32AsF32(new_size.width), U32AsF32(new_size.height)),
                    TRUE)
    ELSE [self EXCEPT !.surface = self.config,
                      !.calls = self.calls \o << Configure(self.config) >>]

\* resize that takes the aspect ratio as height / width
resize_inverted_aspect(self, new_size) ==
    IF new_size.width > 0 /\ new_size.height > 0
    THEN ResizeWith(self, new_size,
                    FDiv(U32AsF32(new_size.height), U32AsF32(new_size.width)),
                    TRUE)
    ELSE self

\* resize that takes the aspect ratio from the configuration it replaces
resize_stale_aspect(self, new_size) ==
    IF new_size.width > 0 /\ new_size.height > 0
    THEN ResizeWith(self, new_size,
                    FDiv(U32AsF32(self.config.width),
                         U32AsF32(self.config.height)),
                    TRUE)
    ELSE self

\* resize that leaves init.size as it was
resize_keeps_size(self, new_size) ==
    IF new_size.width > 0 /\ new_size.height > 0
    THEN [ResizeWith(self, new_size,
                     FDiv(U32AsF32(new_size.width), U32AsF32(new_size.height)),
                     TRUE)
            EXCEPT !.size = self.size]
    ELSE self

resize(self, new_size) ==
    IF new_size.width > 0 /\ new_size.height > 0
    THEN LET cfg  == [self.config EXCEPT !.width = new_size.width,
                                         !.height = new_size.height]
             proj == create_projection(
                         FDiv(U32AsF32(new_size.width),
                              U32AsF32(new_size.height)), IS_PERSPECTIVE)
             mvp_mat == MatMul(MatMul(proj, self.view_matrix),
                               self.model_matrix)
         IN  [self EXCEPT
                 !.size = new_size,
                 !.config = cfg,
                 !.surface = cfg,
                 !.projection_matrix = proj,
                 !.uniform_buffer = AsRef(mvp_mat),
                 !.calls = self.calls \o
                     << Call("instance.poll_all", "true", 0, 0),
                        Configure(cfg),
                        Call("queue.write_buffer", "uniform_buffer", 0, 16) >>]
    ELSE self

\* State::render presenting the target before it submits the commands
render_presents_first(self, acquired) ==
    IF acquired # "Ok"
    THEN [self |-> [self EXCEPT !.calls = self.calls \o
                       << Call("surface.get_current_texture", acquired, 0, 0) >>],
          result |-> acquired]
    ELSE [self |-> [self EXCEPT !.calls = self.calls \o
             << Call("surface.get_current_texture", "Ok", 0, 0),
                Call("texture.create_view", "output", 0, 0),
                Call("device.create_texture", "Depth24Plus",
                     self.config.width, self.config.height),
                Call("texture.create_view", "depth", 0, 0),
                Call("device.create_command_encoder", "Render Encoder", 0, 0),
                Call("encoder.begin_render_pass", "Render Pass", 0, 0),
                Call("render_pass.set_pipeline", "pipeline", 0, 0),
                Call("render_pass.set_vertex_buffer", "vertex_buffer", 0, 0),
                Call("render_pass.set_bind_group", "uniform_bind_group", 0, 0),
                Call("render_pass.draw", "vertices, instances", 36, 1),
                Call("output.present", "output", 0, 0),
                Call("queue.submit", "encoder.finish", 0, 0) >>],
          result |-> "Ok"]

\* State::render; acquired is what surface.get_current_texture returns
render(self, acquired) ==
    IF acquired # "Ok"
    THEN [self |-> [self EXCEPT !.calls = self.calls \o
                       << Call("surface.get_current_texture", acquired, 0, 0) >>],
          result |-> acquired]
    ELSE [self |-> [self EXCEPT !.calls = self.calls \o
             << Call("surface.get_current_texture", "Ok", 0, 0),
                Call("texture.create_view", "output", 0, 0),
                Call("device.create_texture", "Depth24Plus",
                     self.config.width, self.config.height),
                Call("texture.create_view", "depth", 0, 0),
                Call("device.create_command_encoder", "Render Encoder", 0, 0),
                Call("encoder.begin_render_pass", "Render Pass", 0, 0),
                Call("render_pass.set_pipeline", "pipeline", 0, 0),
                Call("render_pass.set_vertex_buffer", "vertex_buffer", 0, 0),
                Call("render_pass.set_bind_group", "uniform_bind_group", 0, 0),
                Call("render_pass.draw", "vertices, instances", 36, 1),
                Call("queue.submit", "encoder.finish", 0, 0),
                Call("output.present", "output", 0, 0) >>],
          result |-> "Ok"]

(***************************************************************************)
(* main.rs: the handlers of the closure given to event_loop.run            *)
(***************************************************************************)
main_close_requested(self) ==
    [self EXCEPT !.exiting = TRUE,
                 !.calls = self.calls \o
                     << Call("println", "The close button was pressed; stopping", 0, 0) >>]

\* the RedrawRequested handler without the SurfaceError::Lost arm
main_redraw_requested_ignores_lost(self, acquired) ==
    LET r == render(self, acquired)
    IN  CASE r.result = "Ok" -> r.self
          [] r.result = "OutOfMemory" -> [r.self EXCEPT !.exiting = TRUE]
          [] OTHER -> [r.self EXCEPT !.calls = r.self.calls \o
                          << Call("eprintln", r.result, 0, 0) >>]

\* the RedrawRequested handler without the SurfaceError::OutOfMemory arm
main_redraw_requested_oom_continues(self, acquired) ==
    LET r == render(self, acquired)
    IN  CASE r.result = "Ok" -> r.self
          [] r.result = "Lost" -> resize(r.self, r.self.size)
          [] OTHER -> [r.self EXCEPT !.calls = r.self.calls \o
                          << Call("eprintln", r.result, 0, 0) >>]

\* the RedrawRequested handler leaving the loop on every error but Lost
main_redraw_requested_error_exits(self, acquired) ==
    LET r == render(self, acquired)
    IN  CASE r.result = "Ok" -> r.self
          [] r.result = "Lost" -> resize(r.self, r.self.size)
          [] OTHER -> [r.self EXCEPT !.exiting = TRUE]

main_redraw_requested(self, acquired) ==
    LET r == render(self, acquired)
    IN  CASE r.result = "Ok" -> r.self
          [] r.result = "Lost" -> resize(r.self, r.self.size)
          [] r.result = "OutOfMemory" -> [r.self EXCEPT !.exiting = TRUE]
          [] OTHER -> [r.self EXCEPT !.calls = r.self.calls \o
                          << Call("eprintln", r.result, 0, 0) >>]

main_resized(self, physical_size) == resize(self, physical_size)

(***************************************************************************)
(* lib.rs: run and the handlers of its closure                             *)
(***************************************************************************)
run_init(window_size) ==
    LET cfg == [width |-> window_size.width, height |-> window_size.height,
                present_mode |-> "Fifo", desired_maximum_frame_latency |-> 1]
    IN  \* the closure captures config and surface only: no State, and the
        \* local size is dead once config is built
        [size |-> << >>, config |-> cfg, surface |-> cfg,
         model_matrix |-> << >>, view_matrix |-> << >>,
         projection_matrix |-> << >>, uniform_buffer |-> << >>,
         exiting |-> FALSE, panicked |-> FALSE,
         calls |-> << Configure(cfg),
                      Call("create_render_pipeline", "None", 0, 0) >>]

run_close_requested(self) ==
    [self EXCEPT !.exiting = TRUE,
                 !.calls = self.calls \o
                     << Call("println", "The close button was pressed; stopping", 0, 0) >>]

run_resized(self, new_size) ==
    LET cfg == [self.config EXCEPT !.width = new_size.width,
                                   !.height = new_size.height]
    IN  [self EXCEPT
            !.config = cfg,
            !.surface = cfg,
            !.calls = self.calls \o
                << Call("instance.poll_all", "true", 0, 0), Configure(cfg) >>]

run_redraw_requested(self, acquired) ==
    IF acquired # "Ok"
    THEN \* get_current_texture().unwrap() on an Err
         [self EXCEPT !.panicked = TRUE,
                      !.calls = self.calls \o
                          << Call("surface.get_current_texture", acquired, 0, 0),
                             Call("panic", "unwrap", 0, 0) >>]
    ELSE [self EXCEPT !.calls = self.calls \o
             << Call("surface.get_current_texture", "Ok", 0, 0),
                Call("texture.create_view", "frame", 0, 0),
                Call("device.create_command_encoder", "None", 0, 0),
                Call("encoder.begin_render_pass", "None", 0, 0),
                Call("render_pass.set_pipeline", "render_pipeline", 0, 0),
                Call("render_pass.draw", "vertices, instances", 3, 1),
                Call("queue.submit", "encoder.finish", 0, 0),
                Call("output.present", "frame", 0, 0) >>]

(***************************************************************************)
(* The state machine                                                       *)
(***************************************************************************)
\* the variables take the fields of s; ev is the notification handled
Commit(s, ev) ==
    /\ size' = s.size
    /\ config' = s.config
    /\ surface' = s.surface
    /\ model_matrix' = s.model_matrix
    /\ view_matrix' = s.view_matrix
    /\ projection_matrix' = s.projection_matrix
    /\ uniform_buffer' = s.uniform_buffer
    /\ exiting' = s.exiting
    /\ panicked' = s.panicked
    /\ calls' = s.calls
    /\ event' = ev
    /\ repeated' = (ev = event)
    /\ UNCHANGED program

Start(prog, s) ==
    /\ program = prog
    /\ size = s.size
    /\ config = s.config
    /\ surface = s.surface
    /\ model_matrix = s.model_matrix
    /\ view_matrix = s.view_matrix
    /\ projection_matrix = s.projection_matrix
    /\ uniform_buffer = s.uniform_buffer
    /\ exiting = s.exiting
    /\ panicked = s.panicked
    /\ calls = s.calls
    /\ event = Event("Init", NoSize, "-")
    /\ repeated = FALSE

InitMain == \E ws \in WindowSizes : Start("main", State_new(ws))

InitRun == \E ws \in WindowSizes : Start("run", run_init(ws))

Init == InitMain \/ InitRun

\* event_loop.run hands notifications to the closure until exit is asked
\* for or the closure panics
Dispatching(prog) == program = prog /\ ~exiting /\ ~panicked

MainCloseRequested ==
    /\ Dispatching("main")
    /\ Commit(main_close_requested(Self), Event("CloseRequested", NoSize, "-"))

MainRedrawRequested ==
    /\ Dispatching("main")
    /\ \E acquired \in Acquired :
          Commit(main_redraw_requested(Self, acquired),
                 Event("RedrawRequested", NoSize, acquired))

MainResized ==
    /\ Dispatching("main")
    /\ \E physical_size \in Sizes :
          Commit(main_resized(Self, physical_size),
                 Event("Resized", physical_size, "-"))

MainOther ==
    /\ Dispatching("main")
    /\ Commit(Self, Event("Other", NoSize, "-"))

RunCloseRequested ==
    /\ Dispatching("run")
    /\ Commit(run_close_requested(Self), Event("CloseRequested", NoSize, "-"))

RunResized ==
    /\ Dispatching("run")
    /\ \E new_size \in Sizes :
          Commit(run_resized(Self, new_size), Event("Resized", new_size, "-"))

RunRedrawRequested ==
    /\ Dispatching("run")
    /\ \E acquired \in Acquired :
          Commit(run_redraw_requested(Self, acquired),
                 Event("RedrawRequested", NoSize, acquired))

RunOther ==
    /\ Dispatching("run")
    /\ Commit(Self, Event("Other", NoSize, "-"))

Next ==
    \/ MainCloseRequested
    \/ MainRedrawRequested
    \/ MainResized
    \/ MainOther
    \/ RunCloseRequested
    \/ RunResized
    \/ RunRedrawRequested
    \/ RunOther

Spec == Init /\ [][Next]_vars

TypeOK ==
    /\ program \in {"main", "run"}
    /\ program = "main" => size \in WindowSizes
    /\ program = "main" => config.width > 0 /\ config.height > 0
    /\ exiting \in BOOLEAN
    /\ panicked \in BOOLEAN

(***************************************************************************)
(* Properties                                                              *)
(***************************************************************************)
IsMain == program = "main"

Positive(w, h) == w > 0 /\ h > 0

\* `width as f32 / height as f32`
Aspect(w, h) == FDiv(U32AsF32(w), U32AsF32(h))

\* the MVP of projection p with the view and model matrices v and m
Mvp(p, v, m) == AsRef(MatMul(MatMul(p, v), m))

Made(cs, c) == \E i \in DOMAIN cs : cs[i] = c

MadeOp(cs, op) == \E i \in DOMAIN cs : cs[i].op = op

\* C1: in main.rs the uniform buffer always holds
\* create_projection(config.width / config.height) x view_matrix x
\* model_matrix for the width and height the configuration stores now.
C1_MvpReflectsAspect ==
    IsMain =>
        uniform_buffer =
            Mvp(create_projection(Aspect(config.width, config.height),
                                  IS_PERSPECTIVE),
                view_matrix, model_matrix)

\* a frame is rendered for a surface whose shape is not the square one
C1_Witness ==
    /\ IsMain
    /\ event.kind = "RedrawRequested" /\ event.acquired = "Ok"
    /\ config.width = 4 /\ config.height = 3
    /\ MadeOp(calls, "output.present")

\* C2: State::resize with a zero width or a zero height changes nothing:
\* configuration, stored size, projection and uniform buffer stay, the
\* surface is not reconfigured, nothing is raised.
C2_DegenerateResizeIsNoOp ==
    [][ (IsMain /\ event'.kind = "Resized"
            /\ ~Positive(event'.width, event'.height))
        => /\ config' = config
           /\ size' = size
           /\ surface' = surface
           /\ projection_matrix' = projection_matrix
           /\ uniform_buffer' = uniform_buffer
           /\ model_matrix' = model_matrix
           /\ view_matrix' = view_matrix
           /\ ~MadeOp(calls', "surface.configure")
           /\ ~MadeOp(calls', "queue.write_buffer")
           /\ ~panicked' /\ ~exiting' ]_vars

C2_Witness ==
    /\ IsMain
    /\ event.kind = "Resized" /\ event.width = 0 /\ event.height = 3
    /\ calls = << >>

\* C3: State::resize with w > 0 and h > 0 stores w and h in the
\* configuration, reapplies it to the surface, sets the projection to
\* create_projection(w / h) and writes the 16 floats of
\* new projection x view x model; model and view matrices stay.
C3_ResizeRecomputes ==
    [][ (IsMain /\ event'.kind = "Resized"
            /\ Positive(event'.width, event'.height))
        => LET p == create_projection(Aspect(event'.width, event'.height),
                                      IS_PERSPECTIVE)
           IN  /\ config'.width = event'.width
               /\ config'.height = event'.height
               /\ surface' = config'
               /\ Made(calls', Configure(config'))
               /\ projection_matrix' = p
               /\ uniform_buffer' = Mvp(p, view_matrix, model_matrix)
               /\ Len(uniform_buffer') = 16
               /\ Made(calls', Call("queue.write_buffer", "uniform_buffer", 0, 16))
               /\ model_matrix' = model_matrix
               /\ view_matrix' = view_matrix ]_vars

C3_Witness ==
    /\ IsMain
    /\ event.kind = "Resized" /\ event.width = 4 /\ event.height = 3
    /\ projection_matrix = create_projection(Aspect(400, 300), IS_PERSPECTIVE)
    /\ MadeOp(calls, "queue.write_buffer")

\* C4: when acquisition fails with Lost, the RedrawRequested handler
\* reapplies the configuration with the size stored before, and neither
\* exits the loop nor panics.
C4_LostReconfigures ==
    [][ (IsMain /\ event'.kind = "RedrawRequested" /\ event'.acquired = "Lost")
        => /\ Made(calls', Call("surface.configure", "Fifo",
                                size.width, size.height))
           /\ surface'.width = size.width
           /\ surface'.height = size.height
           /\ size' = size
           /\ ~exiting' /\ ~panicked' ]_vars

C4_Witness ==
    /\ IsMain
    /\ event.kind = "RedrawRequested" /\ event.acquired = "Lost"
    /\ MadeOp(calls, "surface.configure")
    /\ ~exiting

C6_OtherErrorsSkipFrame ==
    [][ (IsMain /\ event'.kind = "RedrawRequested"
            /\ event'.acquired \in SurfaceErrors \ {"Lost", "OutOfMemory"})
        => /\ calls' = << Call("surface.get_current_texture", event'.acquired, 0, 0),
                          Call("eprintln", event'.acquired, 0, 0) >>
           /\ config' = config /\ size' = size /\ surface' = surface
           /\ model_matrix' = model_matrix /\ view_matrix' = view_matrix
           /\ projection_matrix' = projection_matrix
           /\ uniform_buffer' = uniform_buffer
           /\ ~exiting' /\ ~panicked' ]_vars

C6_Witness ==
    /\ IsMain
    /\ event.kind = "RedrawRequested" /\ event.acquired = "Timeout"
    /\ MadeOp(calls, "eprintln")
    /\ ~exiting /\ ~panicked

\* C7: in both event loops an acquisition error met while handling
\* RedrawRequested never panics, and only OutOfMemory ends the loop.
C7_ErrorsNeverEscape ==
    (event.kind = "RedrawRequested" /\ event.acquired \in SurfaceErrors)
        => /\ ~panicked
           /\ exiting <=> event.acquired = "OutOfMemory"

\* C8: in both resize paths a Resized with a zero dimension leaves the
\* stored width and height alone and does not reapply the configuration;
\* with both dimensions positive it stores them and reapplies it.
C8_ReconfigureGuardsZero ==
    [][ event'.kind = "Resized"
        => IF Positive(event'.width, event'.height)
           THEN /\ config'.width = event'.width
                /\ config'.height = event'.height
                /\ Made(calls', Configure(config'))
           ELSE /\ config'.width = config.width
                /\ config'.height = config.height
                /\ ~MadeOp(calls', "surface.configure") ]_vars

\* C9: State::resize(w, h) called a second time in a row, w > 0 and h > 0,
\* leaves the uniform buffer, the configuration and the projection as the
\* first call left them.
C9_ResizeIdempotent ==
    [][ (IsMain /\ event.kind = "Resized" /\ event'.kind = "Resized"
            /\ event'.width = event.width /\ event'.height = event.height
            /\ Positive(event.width, event.height))
        => /\ uniform_buffer' = uniform_buffer
           /\ config' = config
           /\ surface' = surface
           /\ projection_matrix' = projection_matrix ]_vars

C9_Witness ==
    /\ IsMain
    /\ event.kind = "Resized" /\ Positive(event.width, event.height)
    /\ repeated
    /\ MadeOp(calls, "queue.write_buffer")

\* C10: create_view_projection returns (view, projection, projection x view);
\* the uniform buffer holds P x V x M for the stored P, V and M after
\* construction and after every resize; a resize to the initial window size
\* right after construction writes what construction uploaded.
C10_CompositionOrder ==
    /\ [](IsMain =>
            LET r == create_view_projection(CameraPosition, LookDirection,
                         UpDirection, Aspect(config.width, config.height),
                         IS_PERSPECTIVE)
            IN  /\ r[1] = view_matrix
                /\ r[2] = projection_matrix
                /\ r[3] = MatMul(projection_matrix, view_matrix)
                /\ r[3] # MatMul(view_matrix, projection_matrix)
                /\ uniform_buffer =
                       Mvp(projection_matrix, view_matrix, model_matrix))
    /\ [][ (IsMain /\ event.kind = "Init" /\ event'.kind = "Resized"
               /\ event'.width = size.width /\ event'.height = size.height)
           => uniform_buffer' = uniform_buffer ]_vars

C10_Witness ==
    /\ IsMain
    /\ event.kind = "Resized" /\ ~repeated
    /\ event.width = 8 /\ event.height = 6
    /\ uniform_buffer =
           AsRef(MatMul(create_view_projection(CameraPosition, LookDirection,
                            UpDirection, Aspect(8, 6), IS_PERSPECTIVE)[3],
                        model_matrix))

\* the number of calls of op among cs
CountOp(cs, op) == Cardinality({i \in DOMAIN cs : cs[i].op = op})

\* C11: a State::render that acquires its target then creates the depth
\* texture of config.width x config.height, records one render pass drawing
\* vertices 0..36 once, submits and presents, in this order, with exactly one
\* submit and one present; a render whose acquisition fails creates no depth
\* texture and submits and presents nothing.
C11_RenderStepOrder ==
    (IsMain /\ event.kind = "RedrawRequested")
    => /\ CountOp(calls, "surface.get_current_texture") = 1
       /\ calls[1] = Call("surface.get_current_texture", event.acquired, 0, 0)
       /\ IF event.acquired = "Ok"
          THEN /\ \E d, p, w, sb, pr \in DOMAIN calls :
                     /\ 1 < d /\ d < p /\ p < w /\ w < sb /\ sb < pr
                     /\ calls[d] = Call("device.create_texture", "Depth24Plus",
                                        config.width, config.height)
                     /\ calls[p].op = "encoder.begin_render_pass"
                     /\ calls[w] = Call("render_pass.draw",
                                        "vertices, instances", 36, 1)
                     /\ calls[sb].op = "queue.submit"
                     /\ calls[pr].op = "output.present"
               /\ CountOp(calls, "device.create_texture") = 1
               /\ CountOp(calls, "encoder.begin_render_pass") = 1
               /\ CountOp(calls, "render_pass.draw") = 1
               /\ CountOp(calls, "queue.submit") = 1
               /\ CountOp(calls, "output.present") = 1
          ELSE /\ CountOp(calls, "device.create_texture") = 0
               /\ CountOp(calls, "encoder.begin_render_pass") = 0
               /\ CountOp(calls, "render_pass.draw") = 0
               /\ CountOp(calls, "queue.submit") = 0
               /\ CountOp(calls, "output.present") = 0

\* a frame is drawn for a surface that is 8 wide and 6 high
C11_Witness ==
    /\ IsMain
    /\ event.kind = "RedrawRequested" /\ event.acquired = "Ok"
    /\ Made(calls, Call("device.create_texture", "Depth24Plus", 8, 6))
    /\ calls[Len(calls)].op = "output.present"
    /\ calls[Len(calls) - 1].op = "queue.submit"

\* C12: in main.rs the stored size, the stored configuration and the
\* configuration last applied to the surface always have the same width and
\* height, so the size used to recover from a lost surface is the size the
\* surface is configured with.
C12_SizeConfigSurfaceAgree ==
    IsMain =>
        /\ size.width = config.width
        /\ size.height = config.height
        /\ surface.width = config.width
        /\ surface.height = config.height
        /\ \A i \in DOMAIN calls :
              (/\ calls[i].op = "surface.configure"
               /\ \A j \in DOMAIN calls :
                     j > i => calls[j].op # "surface.configure")
              => calls[i].x = size.width /\ calls[i].y = size.height

\* a lost surface is recovered after the window went to 3 wide and 4 high
C12_Witness ==
    /\ IsMain
    /\ event.kind = "RedrawRequested" /\ event.acquired = "Lost"
    /\ size = PhysicalSize(3, 4)
    /\ Made(calls, Call("surface.configure", "Fifo", 3, 4))
====
